---- MODULE Spec2Model ----
(***************************************************************************)
(* State-machine model of the rules/state engine of src/chess_app.py       *)
(* (class ChessGame): the 8x8 board, move generation, move application,    *)
(* castling bookkeeping, king-missing game-over detection and the          *)
(* click-driven selection protocol.                                        *)
(***************************************************************************)
EXTENDS Integers, Sequences, FiniteSets, TLC

VARIABLES board, selected_piece, turn, valid_moves, game_over, winner,
          check, castling_rights, move_history

vars == <<board, selected_piece, turn, valid_moves, game_over, winner,
          check, castling_rights, move_history>>

(***************************************************************************)
(* Constants of the program.                                               *)
(***************************************************************************)
BOARD_SIZE == 8

\* Python's None for selected_piece (an empty tuple is falsy like None),
\* for winner, and for get_piece_at off the board.
NoSelection == <<>>
NoWinner == "none"
NoPiece == "None"

Rows == 0 .. (BOARD_SIZE - 1)
Cols == 0 .. (BOARD_SIZE - 1)

INITIAL_ROWS ==
    << <<"r", "n", "b", "q", "k", "b", "n", "r">>,
       <<"p", "p", "p", "p", "p", "p", "p", "p">>,
       <<" ", " ", " ", " ", " ", " ", " ", " ">>,
       <<" ", " ", " ", " ", " ", " ", " ", " ">>,
       <<" ", " ", " ", " ", " ", " ", " ", " ">>,
       <<" ", " ", " ", " ", " ", " ", " ", " ">>,
       <<"P", "P", "P", "P", "P", "P", "P", "P">>,
       <<"R", "N", "B", "Q", "K", "B", "N", "R">> >>

\* board[row][col], rows and columns counted from 0 as in the program.
INITIAL_BOARD == [r \in Rows |-> [c \in Cols |-> INITIAL_ROWS[r + 1][c + 1]]]

(***************************************************************************)
(* The engine state as one record, so that the methods are operators from  *)
(* a state (self) to a state.                                              *)
(***************************************************************************)
self == [board |-> board, selected_piece |-> selected_piece, turn |-> turn,
         valid_moves |-> valid_moves, game_over |-> game_over,
         winner |-> winner, check |-> check,
         castling_rights |-> castling_rights, move_history |-> move_history]

\* Mutant: the restart keeps the king-moved flags from the finished game.
reset_game_KingFlagsStale ==
    [board |-> INITIAL_BOARD,
     selected_piece |-> NoSelection,
     turn |-> "white",
     valid_moves |-> <<>>,
     game_over |-> FALSE,
     winner |-> NoWinner,
     check |-> FALSE,
     castling_rights |->
        [white |-> [kingside |-> TRUE, queenside |-> TRUE],
         white_king_moved |-> TRUE,
         black |-> [kingside |-> TRUE, queenside |-> TRUE],
         black_king_moved |-> TRUE],
     move_history |-> <<>>]

\* reset_game: the state after construction and after every restart.
reset_game ==
    [board |-> INITIAL_BOARD,
     selected_piece |-> NoSelection,
     turn |-> "white",
     valid_moves |-> <<>>,
     game_over |-> FALSE,
     winner |-> NoWinner,
     check |-> FALSE,
     castling_rights |->
        [white |-> [kingside |-> TRUE, queenside |-> TRUE],
         white_king_moved |-> FALSE,
         black |-> [kingside |-> TRUE, queenside |-> TRUE],
         black_king_moved |-> FALSE],
     move_history |-> <<>>]

(***************************************************************************)
(* Piece helpers.                                                          *)
(***************************************************************************)
\* str.isupper(): true of the white letters, false of black ones and ' '.
is_piece_white(piece) == piece \in {"P", "R", "N", "B", "Q", "K"}

\* str.upper() on a piece letter.
upper(piece) ==
    CASE piece = "p" -> "P"
      [] piece = "r" -> "R"
      [] piece = "n" -> "N"
      [] piece = "b" -> "B"
      [] piece = "q" -> "Q"
      [] piece = "k" -> "K"
      [] OTHER -> piece

is_valid_position(row, col) ==
    0 <= row /\ row < BOARD_SIZE /\ 0 <= col /\ col < BOARD_SIZE

get_piece_at(g, row, col) ==
    IF ~is_valid_position(row, col) THEN NoPiece ELSE g.board[row][col]

(***************************************************************************)
(* calculate_valid_moves: the pseudo-legal destinations of the piece on    *)
(* (row, col), as a list in the order the program appends them.            *)
(***************************************************************************)
\* A destination is kept when it is empty or holds a piece of the other colour.
EmptyOrEnemy(g, is_white, r, c) ==
    LET target == g.board[r][c]
    IN  target = " " \/ is_white # is_piece_white(target)

\* Mutant: the two-step test is not nested in the one-step test, so a pawn
\* on its starting row jumps over the piece in front of it.
PawnMoves_JumpsOver(g, row, col, is_white) ==
    LET direction == IF is_white THEN -1 ELSE 1
        one ==
            IF is_valid_position(row + direction, col)
               /\ g.board[row + direction][col] = " "
            THEN << <<row + direction, col>> >>
            ELSE <<>>
        two ==
            IF ((is_white /\ row = 6) \/ (~is_white /\ row = 1))
               /\ g.board[row + 2 * direction][col] = " "
            THEN << <<row + 2 * direction, col>> >>
            ELSE <<>>
        capture(c_offset) ==
            IF is_valid_position(row + direction, col + c_offset)
               /\ g.board[row + direction][col + c_offset] # " "
               /\ is_white # is_piece_white(g.board[row + direction][col + c_offset])
            THEN << <<row + direction, col + c_offset>> >>
            ELSE <<>>
    IN  one \o two \o capture(-1) \o capture(1)

\* Pawn: one step, two steps from the starting row, diagonal captures.
PawnMoves(g, row, col, is_white) ==
    LET direction == IF is_white THEN -1 ELSE 1
        forward ==
            IF is_valid_position(row + direction, col)
               /\ g.board[row + direction][col] = " "
            THEN << <<row + direction, col>> >> \o
                 (IF ((is_white /\ row = 6) \/ (~is_white /\ row = 1))
                     /\ g.board[row + 2 * direction][col] = " "
                  THEN << <<row + 2 * direction, col>> >>
                  ELSE <<>>)
            ELSE <<>>
        capture(c_offset) ==
            IF is_valid_position(row + direction, col + c_offset)
               /\ g.board[row + direction][col + c_offset] # " "
               /\ is_white # is_piece_white(g.board[row + direction][col + c_offset])
            THEN << <<row + direction, col + c_offset>> >>
            ELSE <<>>
    IN  forward \o capture(-1) \o capture(1)

\* Mutant: the first occupied square is kept whatever its colour.
RECURSIVE Ray_TakesOwn(_, _, _, _, _, _, _)
Ray_TakesOwn(g, row, col, is_white, dr, dc, i) ==
    IF i >= BOARD_SIZE THEN <<>>
    ELSE LET r == row + i * dr
             c == col + i * dc
         IN  IF ~is_valid_position(r, c) THEN <<>>
             ELSE IF g.board[r][c] = " "
                  THEN << <<r, c>> >>
                       \o Ray_TakesOwn(g, row, col, is_white, dr, dc, i + 1)
                  ELSE << <<r, c>> >>

\* One sliding direction: for i in range(1, BOARD_SIZE), stop at the edge or
\* at the first occupied square, which is kept only if it is an enemy.
RECURSIVE Ray(_, _, _, _, _, _, _)
Ray(g, row, col, is_white, dr, dc, i) ==
    IF i >= BOARD_SIZE THEN <<>>
    ELSE LET r == row + i * dr
             c == col + i * dc
         IN  IF ~is_valid_position(r, c) THEN <<>>
             ELSE IF g.board[r][c] = " "
                  THEN << <<r, c>> >> \o Ray(g, row, col, is_white, dr, dc, i + 1)
                  ELSE IF is_white # is_piece_white(g.board[r][c])
                       THEN << <<r, c>> >>
                       ELSE <<>>

RECURSIVE SlideMoves(_, _, _, _, _)
SlideMoves(g, row, col, is_white, dirs) ==
    IF dirs = <<>> THEN <<>>
    ELSE Ray(g, row, col, is_white, Head(dirs)[1], Head(dirs)[2], 1)
         \o SlideMoves(g, row, col, is_white, Tail(dirs))

RookDirections == << <<0, 1>>, <<1, 0>>, <<0, -1>>, <<-1, 0>> >>
BishopDirections == << <<1, 1>>, <<1, -1>>, <<-1, 1>>, <<-1, -1>> >>

knight_moves ==
    << <<-2, -1>>, <<-2, 1>>, <<-1, -2>>, <<-1, 2>>,
       <<1, -2>>, <<1, 2>>, <<2, -1>>, <<2, 1>> >>

king_moves ==
    << <<-1, -1>>, <<-1, 0>>, <<-1, 1>>,
       <<0, -1>>, <<0, 1>>,
       <<1, -1>>, <<1, 0>>, <<1, 1>> >>

\* Knight and king steps: each offset that stays on the board and lands on an
\* empty or enemy square.
StepMoves(g, row, col, is_white, offsets) ==
    LET ok(o) == is_valid_position(row + o[1], col + o[2])
                 /\ EmptyOrEnemy(g, is_white, row + o[1], col + o[2])
        kept == SelectSeq(offsets, ok)
    IN  [i \in 1 .. Len(kept) |-> <<row + kept[i][1], col + kept[i][2]>>]

\* Mutant: castling is offered whether or not the king has moved.
CastlingMoves_IgnoresKingMoved(g, is_white) ==
    LET cr == g.castling_rights
        b == g.board
    IN  IF is_white
        THEN (IF cr.white.kingside /\ b[7][5] = " " /\ b[7][6] = " "
                 /\ b[7][7] = "R"
              THEN << <<7, 6>> >> ELSE <<>>)
             \o
             (IF cr.white.queenside /\ b[7][1] = " " /\ b[7][2] = " "
                 /\ b[7][3] = " " /\ b[7][0] = "R"
              THEN << <<7, 2>> >> ELSE <<>>)
        ELSE (IF cr.black.kingside /\ b[0][5] = " " /\ b[0][6] = " "
                 /\ b[0][7] = "r"
              THEN << <<0, 6>> >> ELSE <<>>)
             \o
             (IF cr.black.queenside /\ b[0][1] = " " /\ b[0][2] = " "
                 /\ b[0][3] = " " /\ b[0][0] = "r"
              THEN << <<0, 2>> >> ELSE <<>>)

\* Castling candidates of the king of one colour.
CastlingMoves(g, is_white) ==
    LET cr == g.castling_rights
        b == g.board
    IN  IF is_white /\ ~cr.white_king_moved
        THEN (IF cr.white.kingside /\ b[7][5] = " " /\ b[7][6] = " "
                 /\ b[7][7] = "R"
              THEN << <<7, 6>> >> ELSE <<>>)
             \o
             (IF cr.white.queenside /\ b[7][1] = " " /\ b[7][2] = " "
                 /\ b[7][3] = " " /\ b[7][0] = "R"
              THEN << <<7, 2>> >> ELSE <<>>)
        ELSE IF ~is_white /\ ~cr.black_king_moved
        THEN (IF cr.black.kingside /\ b[0][5] = " " /\ b[0][6] = " "
                 /\ b[0][7] = "r"
              THEN << <<0, 6>> >> ELSE <<>>)
             \o
             (IF cr.black.queenside /\ b[0][1] = " " /\ b[0][2] = " "
                 /\ b[0][3] = " " /\ b[0][0] = "r"
              THEN << <<0, 2>> >> ELSE <<>>)
        ELSE <<>>

calculate_valid_moves(g, row, col) ==
    LET piece == get_piece_at(g, row, col)
        is_white == is_piece_white(piece)
        kind == upper(piece)
    IN  IF piece = " " THEN <<>>
        ELSE (IF kind = "P" THEN PawnMoves(g, row, col, is_white) ELSE <<>>)
             \o (IF kind \in {"R", "Q"}
                 THEN SlideMoves(g, row, col, is_white, RookDirections)
                 ELSE <<>>)
             \o (IF kind \in {"B", "Q"}
                 THEN SlideMoves(g, row, col, is_white, BishopDirections)
                 ELSE <<>>)
             \o (IF kind = "N"
                 THEN StepMoves(g, row, col, is_white, knight_moves)
                 ELSE <<>>)
             \o (IF kind = "K"
                 THEN StepMoves(g, row, col, is_white, king_moves)
                      \o CastlingMoves(g, is_white)
                 ELSE <<>>)

(***************************************************************************)
(* move_piece and check_for_checkmate.                                     *)
(***************************************************************************)
\* Mutant: the captured piece is read after the mover was put down.
MoveRecord_CapturedAfterMove(piece, fr, fc, tr, tc, captured_piece) ==
    [piece |-> piece, from |-> <<fr, fc>>, to |-> <<tr, tc>>,
     captured |-> piece]

\* The history entry appended before the board is touched.
MoveRecord(piece, from_row, from_col, to_row, to_col, captured_piece) ==
    [piece |-> piece, from |-> <<from_row, from_col>>,
     to |-> <<to_row, to_col>>, captured |-> captured_piece]

\* Mutant: the rook is copied next to the king and stays in its corner too.
CastleRook_KeepsCorner(b, piece, from_col, to_col) ==
    LET d == from_col - to_col
        rook_row == IF is_piece_white(piece) THEN 7 ELSE 0
    IN  IF upper(piece) = "K" /\ (d = 2 \/ d = -2)
        THEN IF to_col = 6
             THEN [b EXCEPT ![rook_row][5] = b[rook_row][7]]
             ELSE IF to_col = 2
             THEN [b EXCEPT ![rook_row][3] = b[rook_row][0]]
             ELSE b
        ELSE b

\* Castling: a king move of two columns also moves the rook of its back rank.
CastleRook(b, piece, from_col, to_col) ==
    LET d == from_col - to_col
        rook_row == IF is_piece_white(piece) THEN 7 ELSE 0
    IN  IF upper(piece) = "K" /\ (d = 2 \/ d = -2)
        THEN IF to_col = 6
             THEN [b EXCEPT ![rook_row][5] = b[rook_row][7],
                            ![rook_row][7] = " "]
             ELSE IF to_col = 2
             THEN [b EXCEPT ![rook_row][3] = b[rook_row][0],
                            ![rook_row][0] = " "]
             ELSE b
        ELSE b

\* Mutant: only the white king's moves are recorded.
KingMoved_WhiteOnly(cr, piece) ==
    IF upper(piece) = "K" /\ is_piece_white(piece)
    THEN [cr EXCEPT !.white_king_moved = TRUE]
    ELSE cr

\* Mutant: a king move is not recorded.
KingMoved_NotRecorded(cr, piece) == cr

\* A king move sets its colour's king-moved flag.
KingMoved(cr, piece) ==
    IF upper(piece) = "K"
    THEN IF is_piece_white(piece)
         THEN [cr EXCEPT !.white_king_moved = TRUE]
         ELSE [cr EXCEPT !.black_king_moved = TRUE]
    ELSE cr

\* Mutant: a rook leaving a corner clears both rights of its colour.
RookMoved_ClearsBoth(cr, piece, from_row, from_col) ==
    IF upper(piece) = "R"
    THEN IF is_piece_white(piece)
         THEN IF from_row = 7 /\ (from_col = 0 \/ from_col = 7)
              THEN [cr EXCEPT !.white.queenside = FALSE,
                              !.white.kingside = FALSE]
              ELSE cr
         ELSE IF from_row = 0 /\ (from_col = 0 \/ from_col = 7)
              THEN [cr EXCEPT !.black.queenside = FALSE,
                              !.black.kingside = FALSE]
              ELSE cr
    ELSE cr

\* Mutant: a rook leaving its corner flips the right instead of clearing it.
RookMoved_Flips(cr, piece, from_row, from_col) ==
    IF upper(piece) = "R"
    THEN IF is_piece_white(piece)
         THEN IF from_row = 7 /\ from_col = 0
              THEN [cr EXCEPT !.white.queenside = ~@]
              ELSE IF from_row = 7 /\ from_col = 7
              THEN [cr EXCEPT !.white.kingside = ~@]
              ELSE cr
         ELSE IF from_row = 0 /\ from_col = 0
              THEN [cr EXCEPT !.black.queenside = ~@]
              ELSE IF from_row = 0 /\ from_col = 7
              THEN [cr EXCEPT !.black.kingside = ~@]
              ELSE cr
    ELSE cr

\* A rook leaving a corner of its own back rank clears that side's right.
RookMoved(cr, piece, from_row, from_col) ==
    IF upper(piece) = "R"
    THEN IF is_piece_white(piece)
         THEN IF from_row = 7 /\ from_col = 0
              THEN [cr EXCEPT !.white.queenside = FALSE]
              ELSE IF from_row = 7 /\ from_col = 7
              THEN [cr EXCEPT !.white.kingside = FALSE]
              ELSE cr
         ELSE IF from_row = 0 /\ from_col = 0
              THEN [cr EXCEPT !.black.queenside = FALSE]
              ELSE IF from_row = 0 /\ from_col = 7
              THEN [cr EXCEPT !.black.kingside = FALSE]
              ELSE cr
    ELSE cr

\* Mutant: only a pawn reaching row 0 is promoted.
Promote_RowZeroOnly(piece, to_row) ==
    IF upper(piece) = "P" /\ to_row = 0
    THEN IF is_piece_white(piece) THEN "Q" ELSE "q"
    ELSE piece

\* Pawn promotion: always to a queen of the pawn's colour.
Promote(piece, to_row) ==
    IF upper(piece) = "P" /\ (to_row = 0 \/ to_row = 7)
    THEN IF is_piece_white(piece) THEN "Q" ELSE "q"
    ELSE piece

\* Mutant: the turn passes to Black and never comes back.
SwitchTurn_AlwaysBlack(t) == "black"

SwitchTurn(t) == IF t = "white" THEN "black" ELSE "white"

\* any('K' in row for row in self.board)
KingExists(b, king) == \E r \in Rows : \E c \in Cols : b[r][c] = king

\* Mutant: only the white king is looked for.
check_for_checkmate_WhiteKingOnly(g) ==
    IF ~KingExists(g.board, "K")
    THEN [g EXCEPT !.game_over = TRUE, !.winner = "black"]
    ELSE g

\* Mutant: the winner is the side whose king is missing.
check_for_checkmate_WinnerSwapped(g) ==
    IF ~KingExists(g.board, "K")
    THEN [g EXCEPT !.game_over = TRUE, !.winner = "white"]
    ELSE IF ~KingExists(g.board, "k")
    THEN [g EXCEPT !.game_over = TRUE, !.winner = "black"]
    ELSE g

check_for_checkmate(g) ==
    IF ~KingExists(g.board, "K")
    THEN [g EXCEPT !.game_over = TRUE, !.winner = "black"]
    ELSE IF ~KingExists(g.board, "k")
    THEN [g EXCEPT !.game_over = TRUE, !.winner = "white"]
    ELSE g

move_piece(g, from_row, from_col, to_row, to_col) ==
    LET piece == g.board[from_row][from_col]
        captured_piece == g.board[to_row][to_col]
        castled == CastleRook(g.board, piece, from_col, to_col)
        placed == Promote(piece, to_row)
    IN  check_for_checkmate(
            [g EXCEPT
                !.move_history =
                    Append(@, MoveRecord(piece, from_row, from_col,
                                         to_row, to_col, captured_piece)),
                !.castling_rights =
                    RookMoved(KingMoved(@, piece), piece, from_row, from_col),
                !.board = [castled EXCEPT ![to_row][to_col] = placed,
                                          ![from_row][from_col] = " "],
                !.turn = SwitchTurn(@)])

(***************************************************************************)
(* handle_click: the selection protocol.                                   *)
(***************************************************************************)
\* (row, col) in self.valid_moves
InMoves(moves, row, col) == \E i \in 1 .. Len(moves) : moves[i] = <<row, col>>

\* Mutant: any piece may be selected, whoever is to move.
OwnPiece_AnyPiece(g, piece) == piece # " "

\* The clicked piece belongs to the side to move.
OwnPiece(g, piece) ==
    piece # " " /\ ((g.turn = "white" /\ is_piece_white(piece))
                    \/ (g.turn = "black" /\ ~is_piece_white(piece)))

\* Mutant: a new selection keeps the destinations cached before it.
Select_KeepsOldMoves(g, row, col) ==
    [g EXCEPT !.selected_piece = <<row, col>>]

Select(g, row, col) ==
    [g EXCEPT !.selected_piece = <<row, col>>,
              !.valid_moves = calculate_valid_moves(g, row, col)]

\* Mutant: the selection is dropped but its destinations stay cached.
Deselect_KeepsMoves(g) == [g EXCEPT !.selected_piece = NoSelection]

Deselect(g) == [g EXCEPT !.selected_piece = NoSelection, !.valid_moves = <<>>]

\* Off the board get_piece_at returns None, and the first test of the
\* clicked piece's colour calls None.isupper(): AttributeError.  The test is
\* reached unless a piece is selected and the click is one of its
\* destinations; nothing has been assigned before it.
ClickRaises(g, row, col) ==
    /\ get_piece_at(g, row, col) = NoPiece
    /\ ~(g.selected_piece # NoSelection /\ InMoves(g.valid_moves, row, col))

\* Lines 308-335: the click while the game is running.  When the call raises,
\* the state is the one the exception leaves behind.
ClickInPlay(g, row, col) ==
    LET piece == get_piece_at(g, row, col)
    IN  IF ClickRaises(g, row, col) THEN g
        ELSE IF g.selected_piece # NoSelection
        THEN IF InMoves(g.valid_moves, row, col)
             THEN Deselect(move_piece(g, g.selected_piece[1],
                                      g.selected_piece[2], row, col))
             ELSE IF OwnPiece(g, piece)
                  THEN Select(g, row, col)
                  ELSE Deselect(g)
        ELSE IF OwnPiece(g, piece)
             THEN Select(g, row, col)
             ELSE g

\* Mutant: the click is handled although the game is over.
handle_click_IgnoresGameOver(g, row, col) == ClickInPlay(g, row, col)

handle_click(g, row, col) ==
    IF g.game_over THEN g ELSE ClickInPlay(g, row, col)

\* An exception propagates out of handle_click(row, col).
handle_click_raises(g, row, col) == ~g.game_over /\ ClickRaises(g, row, col)

(***************************************************************************)
(* The part of the game tree that is explored.  Each opening is a list of  *)
(* moves <<from_row, from_col, to_row, to_col>>.  From the starting        *)
(* position the clicks may follow any opening move by move, and after the  *)
(* last move of an opening every sequence of at most MaxExtraMoves further *)
(* moves is explored (none when the opening ends with a captured king).    *)
(***************************************************************************)
\* White develops until it may castle on either wing while a black knight
\* goes back and forth; White to move.
WhiteReady ==
    << <<7, 6, 5, 5>>, <<0, 6, 2, 5>>,      \* Nf3 Nf6
       <<6, 4, 4, 4>>, <<2, 5, 0, 6>>,      \* e4  Ng8
       <<7, 5, 6, 4>>, <<0, 6, 2, 5>>,      \* Be2 Nf6
       <<6, 3, 5, 3>>, <<2, 5, 0, 6>>,      \* d3  Ng8
       <<7, 2, 5, 4>>, <<0, 6, 2, 5>>,      \* Be3 Nf6
       <<7, 1, 5, 2>>, <<2, 5, 0, 6>>,      \* Nc3 Ng8
       <<7, 3, 6, 3>>, <<0, 6, 2, 5>> >>    \* Qd2 Nf6

\* Black develops while a white knight goes back and forth, castles
\* queenside and then takes the white king with a knight.
BlackCastlesLong ==
    << <<7, 6, 5, 5>>, <<0, 6, 2, 5>>,      \* Nf3 Nf6
       <<5, 5, 7, 6>>, <<1, 4, 3, 4>>,      \* Ng1 e5
       <<7, 6, 5, 5>>, <<0, 5, 1, 4>>,      \* Nf3 Be7
       <<5, 5, 7, 6>>, <<1, 3, 2, 3>>,      \* Ng1 d6
       <<7, 6, 5, 5>>, <<0, 2, 2, 4>>,      \* Nf3 Be6
       <<5, 5, 7, 6>>, <<0, 1, 2, 2>>,      \* Ng1 Nc6
       <<7, 6, 5, 5>>, <<0, 3, 1, 3>>,      \* Nf3 Qd7
       <<5, 5, 7, 6>>, <<0, 4, 0, 2>>,      \* Ng1 O-O-O
       <<7, 6, 5, 5>>, <<2, 2, 4, 3>>,      \* Nf3 Nd4
       <<5, 5, 7, 6>>, <<4, 3, 6, 2>>,      \* Ng1 Nxc2
       <<7, 6, 5, 5>>, <<6, 2, 7, 4>> >>    \* Nf3 Nxe1

\* White's kingside rook leaves its corner, comes back and leaves again;
\* Black castles kingside; a white bishop then takes the black king.
RookReturns ==
    << <<7, 6, 5, 5>>, <<0, 6, 2, 5>>,      \* Nf3  Nf6
       <<6, 4, 5, 4>>, <<1, 4, 2, 4>>,      \* e3   e6
       <<7, 5, 6, 4>>, <<0, 5, 1, 4>>,      \* Be2  Be7
       <<7, 7, 7, 6>>, <<0, 4, 0, 6>>,      \* Rg1  O-O
       <<7, 6, 7, 7>>, <<1, 0, 2, 0>>,      \* Rh1  a6
       <<7, 7, 7, 6>>, <<2, 0, 3, 0>>,      \* Rg1  a5
       <<6, 4, 5, 3>>, <<3, 0, 4, 0>>,      \* Bd3  a4
       <<5, 3, 1, 7>>, <<4, 0, 5, 0>>,      \* Bxh7 a3
       <<1, 7, 0, 6>> >>                    \* Bxg8

\* White's queen takes the black king on the fifth move of the game.
QueenTakesKing ==
    << <<6, 4, 4, 4>>, <<1, 5, 2, 5>>,      \* e4  f6
       <<7, 3, 3, 7>>, <<1, 0, 2, 0>>,      \* Qh5 a6
       <<3, 7, 0, 4>> >>                    \* Qxe8

\* A white pawn walks to row 0 and the queen it becomes takes the black king.
WhitePromotes ==
    << <<6, 7, 4, 7>>, <<1, 6, 3, 6>>,      \* h4   g5
       <<4, 7, 3, 6>>, <<0, 6, 2, 5>>,      \* hxg5 Nf6
       <<3, 6, 2, 6>>, <<1, 0, 2, 0>>,      \* g6   a6
       <<2, 6, 1, 6>>, <<2, 0, 3, 0>>,      \* g7   a5
       <<1, 6, 0, 6>>, <<3, 0, 4, 0>>,      \* g8=Q a4
       <<0, 6, 0, 5>>, <<4, 0, 5, 0>>,      \* Qxf8 a3
       <<0, 5, 0, 4>> >>                    \* Qxe8

\* A black pawn captures its way to row 7, a white pawn to row 0, and the
\* black queen takes the white king.
BlackPromotes ==
    << <<6, 0, 5, 0>>, <<1, 7, 3, 7>>,      \* a3     h5
       <<6, 6, 4, 6>>, <<3, 7, 4, 6>>,      \* g4     hxg4
       <<5, 0, 4, 0>>, <<4, 6, 5, 6>>,      \* a4     g3
       <<4, 0, 3, 0>>, <<5, 6, 6, 5>>,      \* a5     gxf2
       <<3, 0, 2, 0>>, <<6, 5, 7, 6>>,      \* a6     fxg1=Q
       <<2, 0, 1, 1>>, <<7, 6, 7, 5>>,      \* axb7   Qxf1
       <<1, 1, 0, 0>>, <<7, 5, 7, 4>> >>    \* bxa8=Q Qxe1

\* White's king steps aside and comes back home with its rook still in the
\* corner; a white bishop then takes the black king.
KingReturns ==
    << <<7, 6, 5, 5>>, <<0, 6, 2, 5>>,      \* Nf3  Nf6
       <<6, 4, 5, 4>>, <<2, 5, 0, 6>>,      \* e3   Ng8
       <<7, 5, 6, 4>>, <<0, 6, 2, 5>>,      \* Be2  Nf6
       <<7, 4, 7, 5>>, <<2, 5, 0, 6>>,      \* Kf1  Ng8
       <<7, 5, 7, 4>>, <<0, 6, 2, 5>>,      \* Ke1  Nf6
       <<6, 4, 3, 1>>, <<2, 5, 0, 6>>,      \* Bb5  Ng8
       <<3, 1, 1, 3>>, <<0, 6, 2, 5>>,      \* Bxd7 Nf6
       <<1, 3, 0, 4>> >>                    \* Bxe8

\* A black bishop takes White's kingside rook on its corner; White's other
\* rook walks to that corner, taking the bishop, and White castles with it.
\* A white bishop then takes the black king.
RookReplaced ==
    << <<6, 6, 4, 6>>, <<1, 1, 2, 1>>,      \* g4   b6
       <<7, 6, 5, 7>>, <<0, 2, 1, 1>>,      \* Nh3  Bb7
       <<6, 0, 4, 0>>, <<1, 1, 7, 7>>,      \* a4   Bxh1
       <<6, 4, 4, 4>>, <<1, 7, 2, 7>>,      \* e4   h6
       <<7, 5, 6, 4>>, <<2, 7, 3, 7>>,      \* Be2  h5
       <<7, 0, 5, 0>>, <<3, 7, 4, 7>>,      \* Ra3  h4
       <<5, 0, 5, 6>>, <<1, 0, 2, 0>>,      \* Rg3  a6
       <<5, 6, 7, 6>>, <<2, 0, 3, 0>>,      \* Rg1  a5
       <<7, 6, 7, 7>>, <<1, 6, 2, 6>>,      \* Rxh1 g6
       <<7, 4, 7, 6>>, <<0, 6, 2, 5>>,      \* O-O  Nf6
       <<6, 4, 3, 1>>, <<2, 5, 0, 6>>,      \* Bb5  Ng8
       <<3, 1, 1, 3>>, <<0, 6, 2, 5>>,      \* Bxd7 Nf6
       <<1, 3, 0, 4>> >>                    \* Bxe8

Openings ==
    { <<>>, WhiteReady, BlackCastlesLong, RookReturns, QueenTakesKing,
      WhitePromotes, BlackPromotes, KingReturns, RookReplaced }

\* The clicks of an opening fed to handle_click, as the event loop does, up
\* to the first move the engine does not apply.
RECURSIVE Replay(_, _)
Replay(g, moves) ==
    IF moves = <<>> THEN g
    ELSE LET m == Head(moves)
             h == handle_click(handle_click(g, m[1], m[2]), m[3], m[4])
         IN  IF Len(h.move_history) = Len(g.move_history) THEN g
             ELSE Replay(h, Tail(moves))

\* The move histories the openings produce.
OpeningHistories == { Replay(reset_game, o).move_history : o \in Openings }

\* How many moves are explored beyond the end of an opening.
MaxExtraMoves == 1

\* p is an initial part of h.
IsPrefix(p, h) == Len(p) <= Len(h) /\ \A i \in 1 .. Len(p) : h[i] = p[i]

\* The history h follows an opening, or extends one by at most MaxExtraMoves.
WithinBound(h) ==
    \E o \in OpeningHistories :
        \/ IsPrefix(h, o)
        \/ Len(h) <= Len(o) + MaxExtraMoves /\ IsPrefix(o, h)

(***************************************************************************)
(* The state machine.                                                      *)
(***************************************************************************)
Update(g) ==
    /\ board' = g.board
    /\ selected_piece' = g.selected_piece
    /\ turn' = g.turn
    /\ valid_moves' = g.valid_moves
    /\ game_over' = g.game_over
    /\ winner' = g.winner
    /\ check' = g.check
    /\ castling_rights' = g.castling_rights
    /\ move_history' = g.move_history

\* ChessGame.__init__ ends with reset_game().
Init ==
    /\ board = reset_game.board
    /\ selected_piece = reset_game.selected_piece
    /\ turn = reset_game.turn
    /\ valid_moves = reset_game.valid_moves
    /\ game_over = reset_game.game_over
    /\ winner = reset_game.winner
    /\ check = reset_game.check
    /\ castling_rights = reset_game.castling_rights
    /\ move_history = reset_game.move_history

\* ChessGame.handle_click(row, col).
HandleClick(row, col) ==
    \E s \in {self} : \E g \in {handle_click(s, row, col)} :
        /\ Len(g.move_history) > Len(s.move_history)
              => WithinBound(g.move_history)
        /\ Update(g)

\* ChessGame.reset_game(), called in any state.
ResetGame == Update(reset_game)

\* A left click in the event loop: restart when the game is over, else
\* handle_click on the clicked square.
MouseButtonDown(row, col) ==
    IF game_over THEN ResetGame ELSE HandleClick(row, col)

\* handle_click called directly once the game is over, the one situation in
\* which the event loop does not call it.
ClickAfterGameOver(row, col) == game_over /\ HandleClick(row, col)

\* Coordinates outside the board, on each side and beyond a corner.  The
\* event loop cannot produce them (600 pixels, 75 per square).
OffBoard ==
    { <<-1, 0>>, <<BOARD_SIZE, 7>>, <<3, -1>>, <<4, BOARD_SIZE>>,
      <<-1, -1>>, <<BOARD_SIZE, BOARD_SIZE>> }

\* handle_click called directly with coordinates outside the board.
OffBoardClick(row, col) ==
    ~is_valid_position(row, col) /\ HandleClick(row, col)

Next ==
    \/ \E row \in Rows : \E col \in Cols : MouseButtonDown(row, col)
    \/ \E row \in Rows : \E col \in Cols : ClickAfterGameOver(row, col)
    \/ \E sq \in OffBoard : OffBoardClick(sq[1], sq[2])
    \/ ResetGame

Spec == Init /\ [][Next]_vars

(***************************************************************************)
(* Vocabulary of the properties.                                           *)
(***************************************************************************)
Selected == selected_piece # NoSelection
Idle == selected_piece = NoSelection

\* The squares cached as destinations of the current selection.
Destinations ==
    { sq \in Rows \X Cols : InMoves(valid_moves, sq[1], sq[2]) }

\* The piece standing on the selected square.
SelectedPiece == board[selected_piece[1]][selected_piece[2]]

LastRecord(h) == h[Len(h)]

IsWhiteLetter(piece) == piece \in {"P", "R", "N", "B", "Q", "K"}
IsBlackLetter(piece) == piece \in {"p", "r", "n", "b", "q", "k"}
IsPawn(piece) == piece \in {"P", "p"}
IsKing(piece) == piece \in {"K", "k"}
ColourOf(piece) == IF IsWhiteLetter(piece) THEN "white" ELSE "black"
QueenOf(piece) == IF IsWhiteLetter(piece) THEN "Q" ELSE "q"
RookOf(piece) == IF IsWhiteLetter(piece) THEN "R" ELSE "r"
Other(colour) == IF colour = "white" THEN "black" ELSE "white"

\* What a move puts on its destination: the mover, or a queen for a pawn
\* that reaches row 0 or row 7.
Arriving(piece, to_row) ==
    IF IsPawn(piece) /\ to_row \in {0, 7} THEN QueenOf(piece) ELSE piece

\* A king move of two columns.
IsCastling(piece, from, to) ==
    IsKing(piece) /\ (from[2] - to[2] = 2 \/ to[2] - from[2] = 2)

(***************************************************************************)
(* C1.  In the Selected state with the game not over, a click on a cached  *)
(* destination applies the move from the selected square to the clicked    *)
(* square (the history grows by that move, the mover leaves the selected   *)
(* square and arrives on the clicked one, the turn passes) and leaves the  *)
(* engine Idle: no selection and no cached destinations.                   *)
(***************************************************************************)
C1_DestinationClickMoves ==
    (Selected /\ ~game_over) =>
        \A sq \in Destinations :
            \A g \in {handle_click(self, sq[1], sq[2])} :
                /\ g.selected_piece = NoSelection
                /\ g.valid_moves = <<>>
                /\ Len(g.move_history) = Len(move_history) + 1
                /\ LastRecord(g.move_history).from = selected_piece
                /\ LastRecord(g.move_history).to = sq
                /\ LastRecord(g.move_history).piece = SelectedPiece
                /\ g.board[selected_piece[1]][selected_piece[2]] = " "
                /\ g.board[sq[1]][sq[2]] = Arriving(SelectedPiece, sq[1])
                /\ g.turn = Other(turn)

\* A move has been applied by a destination click and the next player has a
\* piece selected with destinations to click.
C1_Witness ==
    /\ Selected /\ ~game_over /\ Destinations # {}
    /\ Len(move_history) > 0
    /\ LastRecord(move_history).to # LastRecord(move_history).from
    /\ board[LastRecord(move_history).to[1]][LastRecord(move_history).to[2]]
          = LastRecord(move_history).piece

\* The piece on sq belongs to the side to move.
OwnSquare(sq) ==
    \/ turn = "white" /\ IsWhiteLetter(board[sq[1]][sq[2]])
    \/ turn = "black" /\ IsBlackLetter(board[sq[1]][sq[2]])

(***************************************************************************)
(* C2.  In the Selected state, a click on a square that is not a cached    *)
(* destination changes neither the board, the side to move, the history,   *)
(* the castling rights nor game_over.  On a piece of the side to move the  *)
(* engine stays Selected, on that square, with the destinations computed   *)
(* anew (the same ones when the square was already selected); on any       *)
(* other square it returns to Idle.                                        *)
(***************************************************************************)
C2_NonDestinationClick ==
    Selected =>
        \A sq \in (Rows \X Cols) \ Destinations :
            \A g \in {handle_click(self, sq[1], sq[2])} :
                /\ g.board = board
                /\ g.turn = turn
                /\ g.move_history = move_history
                /\ g.castling_rights = castling_rights
                /\ g.game_over = game_over
                /\ IF OwnSquare(sq)
                   THEN /\ g.selected_piece = sq
                        /\ g.valid_moves = calculate_valid_moves(self, sq[1], sq[2])
                        /\ sq = selected_piece => g.valid_moves = valid_moves
                   ELSE /\ g.selected_piece = NoSelection
                        /\ g.valid_moves = <<>>

\* A selection made after a move, with each kind of non-destination square
\* on the board: another piece of the side to move, an enemy piece, an
\* empty square.
C2_Witness ==
    /\ Selected /\ Len(move_history) > 0 /\ Destinations # {}
    /\ \E sq \in (Rows \X Cols) \ Destinations :
          OwnSquare(sq) /\ sq # selected_piece
    /\ \E sq \in (Rows \X Cols) \ Destinations :
          ~OwnSquare(sq) /\ board[sq[1]][sq[2]] # " "
    /\ \E sq \in (Rows \X Cols) \ Destinations : board[sq[1]][sq[2]] = " "

(***************************************************************************)
(* C3.  Once game_over is true every handle_click, on any square, leaves   *)
(* the whole engine state unchanged, and the only step that changes        *)
(* anything, game_over included, is reset_game.                            *)
(***************************************************************************)
C3_GameOverIsFinal ==
    /\ [](game_over =>
            \A sq \in Rows \X Cols : handle_click(self, sq[1], sq[2]) = self)
    /\ [][game_over => self' = reset_game]_vars

\* The game is over: a king has been captured.
C3_Witness ==
    /\ game_over /\ winner = "white"
    /\ LastRecord(move_history).captured = "k"

(***************************************************************************)
(* C4.  A move onto the square of the opposing king sets game_over and     *)
(* makes the mover's colour the winner; a move that captures no king       *)
(* leaves game_over false.                                                 *)
(***************************************************************************)
C4_KingCaptureEndsGame ==
    (Selected /\ ~game_over) =>
        \A sq \in Destinations :
            \A g \in {handle_click(self, sq[1], sq[2])} :
                IF IsKing(board[sq[1]][sq[2]])
                   /\ ColourOf(board[sq[1]][sq[2]]) # ColourOf(SelectedPiece)
                THEN g.game_over /\ g.winner = ColourOf(SelectedPiece)
                ELSE ~g.game_over

\* Black has captured the white king and has won.
C4_Witness ==
    /\ game_over /\ winner = "black"
    /\ LastRecord(move_history).captured = "K"
    /\ IsBlackLetter(LastRecord(move_history).piece)

(***************************************************************************)
(* C5.  A castling move (a king move of two columns) is made on the back   *)
(* rank r of its colour and leaves, kingside, the king on (r,6), the rook  *)
(* of its colour on (r,5) and (r,4), (r,7) empty; queenside, the king on   *)
(* (r,2), the rook on (r,3) and (r,4), (r,0) empty.  No other square of    *)
(* the board changes.                                                      *)
(***************************************************************************)
C5_CastlingGeometry ==
    (Selected /\ ~game_over) =>
        \A sq \in Destinations :
            IsCastling(SelectedPiece, selected_piece, sq) =>
                \A g \in {handle_click(self, sq[1], sq[2])} :
                    LET r == sq[1]
                        touched == IF sq[2] = 6 THEN {4, 5, 6, 7}
                                                ELSE {0, 2, 3, 4}
                    IN  /\ r = (IF IsWhiteLetter(SelectedPiece) THEN 7 ELSE 0)
                        /\ selected_piece[1] = r
                        /\ sq[2] \in {2, 6}
                        /\ sq[2] = 6 =>
                              /\ g.board[r][6] = SelectedPiece
                              /\ g.board[r][5] = RookOf(SelectedPiece)
                              /\ g.board[r][4] = " "
                              /\ g.board[r][7] = " "
                        /\ sq[2] = 2 =>
                              /\ g.board[r][2] = SelectedPiece
                              /\ g.board[r][3] = RookOf(SelectedPiece)
                              /\ g.board[r][4] = " "
                              /\ g.board[r][0] = " "
                        /\ \A rr \in Rows : \A cc \in Cols :
                              (rr # r \/ cc \notin touched)
                                 => g.board[rr][cc] = board[rr][cc]

\* Black has just castled queenside.
C5_Witness ==
    /\ Len(move_history) > 0
    /\ LastRecord(move_history).piece = "k"
    /\ LastRecord(move_history).from = <<0, 4>>
    /\ LastRecord(move_history).to = <<0, 2>>
    /\ board[0][2] = "k" /\ board[0][3] = "r"
    /\ board[0][0] = " " /\ board[0][4] = " "

\* The records of the history that are castling moves of one colour.
CastlingRecords(colour) ==
    { i \in 1 .. Len(move_history) :
        /\ ColourOf(move_history[i].piece) = colour
        /\ IsCastling(move_history[i].piece, move_history[i].from,
                      move_history[i].to) }

SideRights(cr, colour) == IF colour = "white" THEN cr.white ELSE cr.black

KingMovedFlag(cr, colour) ==
    IF colour = "white" THEN cr.white_king_moved ELSE cr.black_king_moved

C7_PawnPromotesToQueen ==
    /\ \A c \in Cols : ~IsPawn(board[0][c]) /\ ~IsPawn(board[7][c])
    /\ (Selected /\ ~game_over) =>
          \A sq \in Destinations :
              (IsPawn(SelectedPiece) /\ sq[1] \in {0, 7}) =>
                  \A g \in {handle_click(self, sq[1], sq[2])} :
                      /\ g.board[sq[1]][sq[2]] = QueenOf(SelectedPiece)
                      /\ LastRecord(g.move_history).piece = SelectedPiece

\* A black pawn has just reached row 7 and a black queen stands there.
C7_Witness ==
    /\ Len(move_history) > 0
    /\ LastRecord(move_history).piece = "p"
    /\ LastRecord(move_history).to[1] = 7
    /\ board[7][LastRecord(move_history).to[2]] = "q"

(***************************************************************************)
(* C8.  An applied move appends exactly one record to the history, whose   *)
(* captured field is what stood on the destination just before the move;   *)
(* afterwards the destination holds the mover (or the queen it promoted    *)
(* to), the origin is empty and the earlier records are unchanged.         *)
(***************************************************************************)
C8_MoveIsRecorded ==
    (Selected /\ ~game_over) =>
        \A sq \in Destinations :
            \A g \in {handle_click(self, sq[1], sq[2])} :
                /\ Len(g.move_history) = Len(move_history) + 1
                /\ SubSeq(g.move_history, 1, Len(move_history)) = move_history
                /\ LastRecord(g.move_history).captured = board[sq[1]][sq[2]]
                /\ g.board[sq[1]][sq[2]] = Arriving(SelectedPiece, sq[1])
                /\ g.board[selected_piece[1]][selected_piece[2]] = " "

\* The last move captured a piece of the other colour, which is in its record.
C8_Witness ==
    /\ Len(move_history) > 1
    /\ LastRecord(move_history).captured # " "
    /\ ColourOf(LastRecord(move_history).captured)
          # ColourOf(LastRecord(move_history).piece)
    /\ board[LastRecord(move_history).from[1]][LastRecord(move_history).from[2]]
          = " "

(***************************************************************************)
(* C9.  White moves first and the side to move changes on every applied    *)
(* move, a king capture included, and on nothing else: White is to move    *)
(* exactly when the history has even length, and the piece of every        *)
(* record has the colour that was to move when it was applied.  Every      *)
(* click that applies no move is a step of the model, so its effect on the *)
(* turn is held to the first rule in the state it leads to; the clicks on  *)
(* destinations are examined one by one.                                   *)
(***************************************************************************)
C9_TurnsAlternate ==
    /\ turn \in {"white", "black"}
    /\ turn = "white" <=> Len(move_history) % 2 = 0
    /\ \A i \in 1 .. Len(move_history) :
          IsWhiteLetter(move_history[i].piece) <=> i % 2 = 1
    /\ \A i \in 1 .. Len(move_history) :
          IsBlackLetter(move_history[i].piece) <=> i % 2 = 0
    /\ \A sq \in Destinations :
          \A g \in {handle_click(self, sq[1], sq[2])} :
              g.turn = IF Len(g.move_history) > Len(move_history)
                       THEN Other(turn) ELSE turn

\* White has captured the black king and it is Black's turn.
C9_Witness ==
    /\ game_over /\ LastRecord(move_history).captured = "k"
    /\ turn = "black" /\ Len(move_history) % 2 = 1

(***************************************************************************)
(* C10.  Between two resets each of the four castling rights only goes     *)
(* from true to false and each king-moved flag only from false to true.    *)
(* A step that shortens the history is a reset; every other step is held   *)
(* to the rule.                                                            *)
(***************************************************************************)
C10_RightsOnlyDecay ==
    [][ Len(move_history') >= Len(move_history) =>
          /\ castling_rights'.white.kingside => castling_rights.white.kingside
          /\ castling_rights'.white.queenside => castling_rights.white.queenside
          /\ castling_rights'.black.kingside => castling_rights.black.kingside
          /\ castling_rights'.black.queenside => castling_rights.black.queenside
          /\ castling_rights.white_king_moved => castling_rights'.white_king_moved
          /\ castling_rights.black_king_moved => castling_rights'.black_king_moved
      ]_vars

\* White's kingside right is gone although a white rook stands on the corner
\* again, the king has not moved and the squares between them are empty.
C10_Witness ==
    /\ ~castling_rights.white.kingside
    /\ ~castling_rights.white_king_moved
    /\ board[7][7] = "R" /\ board[7][4] = "K"
    /\ board[7][5] = " " /\ board[7][6] = " "


\* The back rank of the standard starting position, from column 0 to 7.
BackRank == <<"R", "N", "B", "Q", "K", "B", "N", "R">>

BlackOf(piece) ==
    CASE piece = "R" -> "r" [] piece = "N" -> "n" [] piece = "B" -> "b"
      [] piece = "Q" -> "q" [] piece = "K" -> "k" [] piece = "P" -> "p"

\* The standard starting position, square by square.
StartingPiece(r, c) ==
    IF r = 7 THEN BackRank[c + 1]
    ELSE IF r = 6 THEN "P"
    ELSE IF r = 1 THEN "p"
    ELSE IF r = 0 THEN BlackOf(BackRank[c + 1])
    ELSE " "

(***************************************************************************)
(* C11.  reset_game, called in any state (mid-game, Selected or game       *)
(* over), yields exactly the initial state: the standard starting board    *)
(* with the white king on (7,4) and the black king on (0,4), White to      *)
(* move, empty history, no selection, no cached destinations, game_over    *)
(* false, no winner, all four castling rights true and both king-moved     *)
(* flags false.  A step is a restart when it is reset_game's, and also     *)
(* whenever it leaves a finished game or shortens the history.             *)
(***************************************************************************)
C11_ResetYieldsInitialState ==
    [][ (ResetGame \/ (game_over /\ ~game_over')
           \/ Len(move_history') < Len(move_history)) =>
          /\ \A r \in Rows : \A c \in Cols : board'[r][c] = StartingPiece(r, c)
          /\ board'[7][4] = "K" /\ board'[0][4] = "k"
          /\ turn' = "white"
          /\ move_history' = <<>>
          /\ selected_piece' = NoSelection
          /\ valid_moves' = <<>>
          /\ ~game_over'
          /\ winner' = NoWinner
          /\ castling_rights'.white.kingside /\ castling_rights'.white.queenside
          /\ castling_rights'.black.kingside /\ castling_rights'.black.queenside
          /\ ~castling_rights'.white_king_moved
          /\ ~castling_rights'.black_king_moved
      ]_vars

\* A finished game that differs from the initial state in every respect a
\* restart has to undo: a king is gone, Black has castled, the history is
\* not empty and it is not White's move.
C11_Witness ==
    /\ game_over /\ winner = "black"
    /\ board[7][4] # "K" /\ board[0][4] # "k"
    /\ castling_rights.black_king_moved
    /\ move_history # <<>>
    /\ turn = "white"


(***************************************************************************)
(* C12.  For a pawn anywhere on a reachable board, the destination two     *)
(* squares ahead is generated exactly when the pawn stands on its colour's *)
(* starting row (6 for White, 1 for Black) and the square one step ahead   *)
(* and the square two steps ahead are both empty.  In particular, from the *)
(* starting position the clicks (6,4) and (4,4) put the white pawn on      *)
(* (4,4), empty (6,4), change no other square and make Black the side to   *)
(* move.  The destinations depend on the board alone, and every board is   *)
(* first reached with no selection, so the pawns are examined in the Idle  *)
(* states.                                                                 *)
(***************************************************************************)
C12_PawnDoubleStep ==
    /\ Idle =>
          \A r \in Rows : \A c \in Cols :
              IsPawn(board[r][c]) =>
                  \A d \in {IF board[r][c] = "P" THEN -1 ELSE 1} :
                      InMoves(calculate_valid_moves(self, r, c), r + 2 * d, c)
                      <=> /\ r = (IF board[r][c] = "P" THEN 6 ELSE 1)
                          /\ board[r + d][c] = " "
                          /\ board[r + 2 * d][c] = " "
    /\ (move_history = <<>> /\ ~game_over) =>
          \A g \in {handle_click(handle_click(self, 6, 4), 4, 4)} :
              /\ g.board[4][4] = "P"
              /\ g.board[6][4] = " "
              /\ \A r \in Rows : \A c \in Cols :
                    <<r, c>> \notin {<<4, 4>>, <<6, 4>>}
                        => g.board[r][c] = StartingPiece(r, c)
              /\ g.turn = "black"

\* The first move of the game was the white pawn's double step from (6,4) to
\* (4,4); it is Black's move, and a black pawn on its starting row has an
\* empty square in front of it and a piece on the square after that.
C12_Witness ==
    /\ Len(move_history) >= 1
    /\ move_history[1].piece = "P"
    /\ move_history[1].from = <<6, 4>> /\ move_history[1].to = <<4, 4>>
    /\ board[4][4] = "P" /\ board[6][4] = " "
    /\ turn = "black"
    /\ \E c \in Cols :
          board[1][c] = "p" /\ board[2][c] = " " /\ board[3][c] # " "


(***************************************************************************)
(* C13.  With a coordinate outside rows 0..7 or columns 0..7 the board     *)
(* query get_piece_at gives an explicit out-of-range outcome, never a      *)
(* piece or the empty square; the engine state is left unchanged; and no   *)
(* exception propagates from handle_click.                                 *)
(***************************************************************************)
C13_OffBoardIsRejected ==
    \A sq \in OffBoard :
        /\ get_piece_at(self, sq[1], sq[2]) = NoPiece
        /\ ~IsWhiteLetter(get_piece_at(self, sq[1], sq[2]))
        /\ ~IsBlackLetter(get_piece_at(self, sq[1], sq[2]))
        /\ get_piece_at(self, sq[1], sq[2]) # " "
        /\ handle_click(self, sq[1], sq[2]) = self
        /\ ~handle_click_raises(self, sq[1], sq[2])


KingOf(colour) == IF colour = "white" THEN "K" ELSE "k"

\* The history holds a move, ordinary or castling, of the colour's king.
KingHasMoved(colour) ==
    \E i \in 1 .. Len(move_history) : move_history[i].piece = KingOf(colour)

\* The destinations generated for the piece on (r, c) that lie two columns
\* from it on its own row.
TwoColumnSteps(r, c) ==
    LET moves == calculate_valid_moves(self, r, c)
    IN  { moves[i] : i \in { j \in 1 .. Len(moves) :
                                /\ moves[j][1] = r
                                /\ (moves[j][2] - c = 2 \/ c - moves[j][2] = 2) } }

(***************************************************************************)
(* C14.  Once a colour's king has made any move, ordinary or castling, no  *)
(* castling destination (a two-column king step) is generated for that     *)
(* colour's king, wherever it stands, until the game is reset; so each     *)
(* colour castles at most once per game.                                   *)
(***************************************************************************)
C14_NoCastlingAfterKingMove ==
    \A colour \in {"white", "black"} :
        /\ KingHasMoved(colour) =>
              \A r \in Rows : \A c \in Cols :
                  board[r][c] = KingOf(colour) => TwoColumnSteps(r, c) = {}
        /\ Cardinality(CastlingRecords(colour)) <= 1

\* White's king has moved and come back home: it is selected on (7,4) with
\* the kingside right still true, the rook in its corner and the squares
\* between them empty, and the king has destinations to choose from.
C14_Witness ==
    /\ KingHasMoved("white")
    /\ turn = "white" /\ selected_piece = <<7, 4>>
    /\ board[7][4] = "K" /\ board[7][7] = "R"
    /\ board[7][5] = " " /\ board[7][6] = " "
    /\ castling_rights.white.kingside
    /\ Destinations # {}


\* The corners of a colour's back rank.
HomeRow(colour) == IF colour = "white" THEN 7 ELSE 0
OwnCorners(colour) == { <<HomeRow(colour), 0>>, <<HomeRow(colour), 7>> }

\* The rights cr with one right of one colour false and all else as it was.
WithoutRight(cr, colour, col) ==
    [white_king_moved |-> cr.white_king_moved,
     black_king_moved |-> cr.black_king_moved,
     white |-> [kingside |-> cr.white.kingside /\ ~(colour = "white" /\ col = 7),
                queenside |-> cr.white.queenside /\ ~(colour = "white" /\ col = 0)],
     black |-> [kingside |-> cr.black.kingside /\ ~(colour = "black" /\ col = 7),
                queenside |-> cr.black.queenside /\ ~(colour = "black" /\ col = 0)]]

(***************************************************************************)
(* C15.  A rook move that departs from a corner of its own colour's back   *)
(* rank sets exactly that colour's right for that side to false and leaves *)
(* the other three rights and both king-moved flags unchanged.  A move of  *)
(* a piece that is neither rook nor king, or of a rook from any other      *)
(* square, leaves all rights and flags unchanged.                          *)
(***************************************************************************)
C15_RookMoveClearsOneRight ==
    (Selected /\ ~game_over /\ ~IsKing(SelectedPiece)) =>
        \A sq \in Destinations :
            \A g \in {handle_click(self, sq[1], sq[2])} :
                IF SelectedPiece \in {"R", "r"}
                   /\ selected_piece \in OwnCorners(ColourOf(SelectedPiece))
                THEN g.castling_rights =
                        WithoutRight(castling_rights, ColourOf(SelectedPiece),
                                     selected_piece[2])
                ELSE g.castling_rights = castling_rights

\* White's kingside rook has just left its corner for the first time: only
\* White's kingside right is false.
C15_Witness ==
    /\ Len(move_history) > 0
    /\ LastRecord(move_history).piece = "R"
    /\ LastRecord(move_history).from = <<7, 7>>
    /\ ~castling_rights.white.kingside /\ castling_rights.white.queenside
    /\ castling_rights.black.kingside /\ castling_rights.black.queenside
    /\ ~castling_rights.white_king_moved /\ ~castling_rights.black_king_moved


Abs(x) == IF x < 0 THEN -x ELSE x
Sign(x) == IF x < 0 THEN -1 ELSE IF x > 0 THEN 1 ELSE 0

\* (dr, dc) is a displacement along a line of movement of the piece.
AlongLine(piece, dr, dc) ==
    \/ piece \in {"R", "r", "Q", "q"} /\ (dr = 0) # (dc = 0)
    \/ piece \in {"B", "b", "Q", "q"} /\ dr # 0 /\ Abs(dr) = Abs(dc)

\* Every square strictly between (r, c) and sq, which lie on one line, is
\* empty.
ClearBetween(r, c, sq) ==
    \A k \in 1 .. (IF Abs(sq[1] - r) > Abs(sq[2] - c)
                   THEN Abs(sq[1] - r) ELSE Abs(sq[2] - c)) - 1 :
        board[r + k * Sign(sq[1] - r)][c + k * Sign(sq[2] - c)] = " "

\* The squares the rook, bishop or queen on (r, c) reaches: along its lines,
\* up to the first occupied square, which counts only if it holds a piece of
\* the other colour.
SliderReach(r, c) ==
    { sq \in Rows \X Cols :
        /\ AlongLine(board[r][c], sq[1] - r, sq[2] - c)
        /\ ClearBetween(r, c, sq)
        /\ \/ board[sq[1]][sq[2]] = " "
           \/ ColourOf(board[sq[1]][sq[2]]) # ColourOf(board[r][c]) }

(***************************************************************************)
(* C16.  For a rook, bishop or queen of either colour on any square of any *)
(* reachable board, the generated destinations are exactly the squares     *)
(* along its lines of movement (orthogonal for a rook, diagonal for a      *)
(* bishop, both for a queen) up to the first occupied square, which is     *)
(* included only if it holds a piece of the other colour: none lies beyond *)
(* an occupied square, off the board or on a piece of the same colour, and *)
(* none is listed twice.  The destinations depend on the board alone, and  *)
(* every board is first reached with no selection (a move and a restart    *)
(* both end Idle), so the Idle states carry every reachable board.         *)
(***************************************************************************)
C16_SlidersStopAtFirstPiece ==
    Idle =>
        \A r \in Rows : \A c \in Cols :
            board[r][c] \in {"R", "r", "B", "b", "Q", "q"} =>
                \A m \in {calculate_valid_moves(self, r, c)} :
                    \A reach \in {SliderReach(r, c)} :
                        /\ \A i \in 1 .. Len(m) : m[i] \in reach
                        /\ \A sq \in reach : InMoves(m, sq[1], sq[2])
                        /\ Len(m) = Cardinality(reach)

\* No piece is selected and White's queen on (3,7) reaches more than ten
\* squares; one line ends on a black piece it may take and another on a
\* white piece that blocks it.
C16_Witness ==
    /\ Idle /\ ~game_over /\ board[3][7] = "Q"
    /\ Cardinality(SliderReach(3, 7)) > 10
    /\ \E sq \in SliderReach(3, 7) : IsBlackLetter(board[sq[1]][sq[2]])
    /\ \E sq \in Rows \X Cols :
          /\ AlongLine("Q", sq[1] - 3, sq[2] - 7)
          /\ ClearBetween(3, 7, sq)
          /\ IsWhiteLetter(board[sq[1]][sq[2]])


\* The corner from which the castling move recorded as rec takes its rook.
RookCorner(rec) == <<rec.from[1], IF rec.to[2] > rec.from[2] THEN 7 ELSE 0>>

\* Before move i of the history the king that castles there had already
\* moved.
KingMovedBefore(i) ==
    \E j \in 1 .. (i - 1) : move_history[j].piece = move_history[i].piece

\* Before move i of the history a rook of the castling colour left or reached
\* the corner the castling move takes its rook from: the rook standing there
\* at move i is then not one that never moved.
RookMovedBefore(i) ==
    \E j \in 1 .. (i - 1) :
        /\ move_history[j].piece = RookOf(move_history[i].piece)
        /\ \/ move_history[j].to = RookCorner(move_history[i])
           \/ move_history[j].from = RookCorner(move_history[i])

(***************************************************************************)
(* C17.  Whenever a castling move is executed, neither the king nor the    *)
(* rook it relocates has moved earlier in the game (since the last reset). *)
(***************************************************************************)
C17_CastlingPiecesNeverMoved ==
    \A i \in 1 .. Len(move_history) :
        IsCastling(move_history[i].piece, move_history[i].from,
                   move_history[i].to)
            => ~KingMovedBefore(i) /\ ~RookMovedBefore(i)


\* The squares on which a given king stands.
KingSquares(king) == { sq \in Rows \X Cols : board[sq[1]][sq[2]] = king }

(***************************************************************************)
(* C18.  In every state reachable from reset through handle_click the      *)
(* board holds at most one king of each colour and at least one king in    *)
(* all.  game_over is true exactly when one king is absent, and then       *)
(* winner is the colour whose king is still on the board; otherwise winner *)
(* is none.                                                                *)
(***************************************************************************)
C18_KingsAndGameOver ==
    \A white_kings \in {KingSquares("K")} : \A black_kings \in {KingSquares("k")} :
        /\ Cardinality(white_kings) <= 1
        /\ Cardinality(black_kings) <= 1
        /\ white_kings # {} \/ black_kings # {}
        /\ game_over <=> (white_kings = {} \/ black_kings = {})
        /\ game_over => winner = (IF white_kings # {} THEN "white" ELSE "black")
        /\ ~game_over => winner = NoWinner

\* The black king has been captured: the game is over and White has won.
C18_Witness ==
    /\ game_over /\ winner = "white"
    /\ KingSquares("k") = {} /\ KingSquares("K") # {}
    /\ LastRecord(move_history).captured = "k"
    /\ LastRecord(move_history).piece = "B"


(***************************************************************************)
(* C19.  In every reachable state the selection is consistent.  If a       *)
(* square is selected, the game is not over, the square holds a piece of   *)
(* the side to move, and valid_moves is what calculate_valid_moves gives   *)
(* for that square on the current board and castling rights.  If nothing   *)
(* is selected, valid_moves is empty.                                      *)
(***************************************************************************)
C19_SelectionIsConsistent ==
    /\ Selected =>
          /\ ~game_over
          /\ selected_piece \in Rows \X Cols
          /\ OwnSquare(selected_piece)
          /\ valid_moves =
                calculate_valid_moves(self, selected_piece[1], selected_piece[2])
    /\ Idle => valid_moves = <<>>

\* After some moves a bishop of the side to move is selected and its cached
\* destinations include a capture.
C19_Witness ==
    /\ Selected /\ Len(move_history) > 2
    /\ SelectedPiece \in {"B", "b"}
    /\ \E sq \in Destinations : board[sq[1]][sq[2]] # " "


\* The columns between the king's home column and the rook's corner on the
\* side of the castling destination column.
CastlingPath(to_col) == IF to_col = 6 THEN {5, 6} ELSE {1, 2, 3}

(***************************************************************************)
(* C20.  In every reachable state, a colour whose king-moved flag is false *)
(* has its king on its home square ((7,4) for White, (0,4) for Black) or   *)
(* has lost it.  Consequently every castling destination that is generated *)
(* is generated for a king standing on its home square, lies on the home   *)
(* row in column 6 or 2, and it and the squares between king and rook are  *)
(* empty.  Castling destinations are generated only for a square that      *)
(* holds a king.                                                           *)
(***************************************************************************)
C20_UnmovedKingIsHome ==
    \A colour \in {"white", "black"} :
        /\ ~KingMovedFlag(castling_rights, colour) =>
              \/ board[HomeRow(colour)][4] = KingOf(colour)
              \/ ~KingExists(board, KingOf(colour))
        /\ \A sq \in KingSquares(KingOf(colour)) :
              \A moves \in {CastlingMoves(self, colour = "white")} :
                  \A i \in 1 .. Len(moves) :
                      /\ sq = <<HomeRow(colour), 4>>
                      /\ moves[i][1] = HomeRow(colour)
                      /\ moves[i][2] \in {6, 2}
                      /\ \A c \in CastlingPath(moves[i][2]) :
                            board[HomeRow(colour)][c] = " "
                      /\ InMoves(calculate_valid_moves(self, sq[1], sq[2]),
                                 moves[i][1], moves[i][2])

\* White's king is selected on its home square and both castling
\* destinations are among its cached destinations.
C20_Witness ==
    /\ selected_piece = <<7, 4>> /\ board[7][4] = "K"
    /\ ~castling_rights.white_king_moved
    /\ <<7, 6>> \in Destinations /\ <<7, 2>> \in Destinations

====
